---- MODULE Spec2Model ----
(***************************************************************************)
(* Model of the traffic worker (src/src/index.ts): the /sustained handler  *)
(* and the SQL pipeline it runs (querySustained), the duration allow-list  *)
(* of the /history handlers (limitMaxDuration), and the per-grid           *)
(* percentiles of the /current handler (grid_stats).                       *)
(*                                                                         *)
(* Time is in minutes.  percentile_cont values are kept as integers in     *)
(* hundredths (the value times 100), which is exact for the quantiles 0.95 *)
(* and 0.99 over integer severities.  SQL NULL is the value NULL.          *)
(***************************************************************************)
EXTENDS Integers, Sequences, FiniteSets, TLC

VARIABLES
    traffic,            \* the traffic table: a sequence of rows
    now,                \* NOW() of the statement
    pc,                 \* "idle" before the request, "done" after the handler ran
    severity_threshold, \* CTE severity_threshold: p95 in hundredths, or NULL
    with_gaps,          \* CTE with_gaps (recent_data + is_congested + next_ts)
    segments,           \* CTE segments
    runs,               \* CTE runs
    long_runs,          \* CTE long_runs
    latest_state,       \* CTE latest_state
    response,           \* rows of the final SELECT, in output order
    request,            \* the query parameters of a /history request
    query_params,       \* the parameter list handed to sql.query
    grid_stats          \* CTE grid_stats of queryCurrentTraffic, for one grid

vars == <<traffic, now, pc, severity_threshold, with_gaps, segments, runs,
          long_runs, latest_state, response, request, query_params, grid_stats>>

\* ------------------------------------------------------------------ bounds
MaxReadings == 4
MaxPop == 5
HistoryRows == 15

Cells == {<<11, 8>>, <<11, 9>>}
Gaps == {0, 10, 20, 30}
Counts == {<<1, 0, 0>>, <<0, 0, 1>>}
NowOffsets == {0, 90}

\* --------------------------------------------------------------- constants
NULL == -1
Lookback == 120
GapTolerance == 20
MinDuration == 30
LatestWindow == 30
QuantileP95 == 95
QuantileP99 == 99

\* ------------------------------------------------------------- severity
Severity(r) == r.yellow * 1 + r.red * 2 + r.dark_red * 3

\* ------------------------------------------------------ percentile_cont
RECURSIVE InsertAsc(_, _)
InsertAsc(v, s) ==
    IF s = <<>> THEN <<v>>
    ELSE IF v <= Head(s) THEN <<v>> \o s
    ELSE <<Head(s)>> \o InsertAsc(v, Tail(s))

RECURSIVE SortAsc(_)
SortAsc(s) == IF s = <<>> THEN <<>> ELSE InsertAsc(Head(s), SortAsc(Tail(s)))

\* percentile_disc: the nearest-rank value, in hundredths
PercentileDisc(q, pop) ==
    IF Len(pop) = 0 THEN NULL
    ELSE LET sorted == SortAsc(pop)
             rank == (q * Len(pop) + 99) \div 100
         IN  100 * sorted[IF rank = 0 THEN 1 ELSE rank]

\* percentile_cont(q/100) WITHIN GROUP (ORDER BY v), in hundredths
PercentileCont(q, pop) ==
    IF Len(pop) = 0 THEN NULL
    ELSE LET sorted == SortAsc(pop)
             pos == q * (Len(pop) - 1)
             first == pos \div 100
             frac == pos % 100
             lo == sorted[first + 1]
             hi == IF frac = 0 THEN lo ELSE sorted[first + 2]
         IN  100 * lo + frac * (hi - lo)

\* severity >= p95 as a condition: unknown (NULL p95) does not pass
SqlGe(sev, p) == p # NULL /\ 100 * sev >= p

SeverityOf(rows) == [i \in 1..Len(rows) |-> Severity(rows[i])]

\* ------------------------------------------------------- querySustained
SeverityThresholdRecent(t, n) ==
    PercentileCont(QuantileP95,
                   SeverityOf(SelectSeq(t, LAMBDA r : r.ts >= n - Lookback)))

SeverityThreshold(t, n) == PercentileCont(QuantileP95, SeverityOf(t))

RecentData(t, n) ==
    LET recent == SelectSeq(t, LAMBDA r : r.ts >= n - Lookback)
    IN  [i \in 1..Len(recent) |->
            [x |-> recent[i].x, y |-> recent[i].y, ts |-> recent[i].ts,
             yellow |-> recent[i].yellow, red |-> recent[i].red,
             dark_red |-> recent[i].dark_red, severity |-> Severity(recent[i])]]

Marked(rd, p95) ==
    [i \in 1..Len(rd) |->
        [x |-> rd[i].x, y |-> rd[i].y, ts |-> rd[i].ts, severity |-> rd[i].severity,
         is_congested |-> IF SqlGe(rd[i].severity, p95) THEN 1 ELSE 0]]

\* Row j comes after row i in ORDER BY ts; rows of equal ts keep table order.
After(m, i, j) == m[j].ts > m[i].ts \/ (m[j].ts = m[i].ts /\ j > i)

SameCell(a, b) == a.x = b.x /\ a.y = b.y

\* LEAD(ts) OVER (ORDER BY ts): the window is not partitioned by cell
LeadTsUnpartitioned(m, i) ==
    LET later == {j \in 1..Len(m) : After(m, i, j)}
    IN  IF later = {} THEN NULL
        ELSE m[CHOOSE j \in later : \A k \in later : k = j \/ After(m, j, k)].ts

\* LEAD(ts) OVER (PARTITION BY x, y ORDER BY ts)
LeadTs(m, i) ==
    LET later == {j \in 1..Len(m) : SameCell(m[i], m[j]) /\ After(m, i, j)}
    IN  IF later = {} THEN NULL
        ELSE m[CHOOSE j \in later : \A k \in later : k = j \/ After(m, j, k)].ts

WithGaps(m) ==
    [i \in 1..Len(m) |->
        [x |-> m[i].x, y |-> m[i].y, ts |-> m[i].ts, severity |-> m[i].severity,
         is_congested |-> m[i].is_congested, next_ts |-> LeadTs(m, i)]]

DurationPieceNoTolerance(w) ==
    IF w.is_congested = 1 /\ w.next_ts # NULL THEN w.next_ts - w.ts ELSE 0

DurationPiece(w) ==
    IF w.is_congested = 1 /\ w.next_ts # NULL /\ w.next_ts - w.ts <= GapTolerance
    THEN w.next_ts - w.ts
    ELSE 0

BreakPointInclusive(w) ==
    IF w.is_congested = 1 /\ (w.next_ts = NULL \/ w.next_ts - w.ts >= GapTolerance)
    THEN 1 ELSE 0

BreakPoint(w) ==
    IF w.is_congested = 1 /\ (w.next_ts = NULL \/ w.next_ts - w.ts > GapTolerance)
    THEN 1 ELSE 0

Segments(w) ==
    [i \in 1..Len(w) |->
        [x |-> w[i].x, y |-> w[i].y, ts |-> w[i].ts,
         duration_piece |-> DurationPiece(w[i]),
         break_point |-> BreakPoint(w[i])]]

RECURSIVE SumBreakPoints(_, _, _)
\* SUM(break_point) over the rows 1..k of f in r's partition with ts <= r.ts
SumBreakPoints(f, r, k) ==
    IF k = 0 THEN 0
    ELSE (IF SameCell(f[k], r) /\ f[k].ts <= r.ts THEN f[k].break_point ELSE 0)
         + SumBreakPoints(f, r, k - 1)

\* The WHERE clause filters the rows before the window function sees them.
Runs(s) ==
    LET f == SelectSeq(s, LAMBDA r : r.duration_piece > 0)
    IN  [i \in 1..Len(f) |->
            [x |-> f[i].x, y |-> f[i].y, ts |-> f[i].ts,
             duration_piece |-> f[i].duration_piece,
             run_id |-> SumBreakPoints(f, f[i], Len(f))]]

RunKey(r) == <<r.x, r.y, r.run_id>>

RECURSIVE GroupKeys(_)
\* the distinct (x, y, run_id) of the rows, in order of first appearance
GroupKeys(rs) ==
    IF rs = <<>> THEN <<>>
    ELSE LET rest == GroupKeys(SelectSeq(Tail(rs), LAMBDA r : RunKey(r) # RunKey(Head(rs))))
         IN  <<RunKey(Head(rs))>> \o rest

RECURSIVE SumPieces(_)
SumPieces(rs) ==
    IF rs = <<>> THEN 0 ELSE Head(rs).duration_piece + SumPieces(Tail(rs))

Grouped(rs) ==
    LET keys == GroupKeys(rs)
    IN  [i \in 1..Len(keys) |->
            [x |-> keys[i][1], y |-> keys[i][2], run_id |-> keys[i][3],
             total_duration |->
                 SumPieces(SelectSeq(rs, LAMBDA r : RunKey(r) = keys[i]))]]

LongRunsStrict(rs) == SelectSeq(Grouped(rs), LAMBDA g : g.total_duration > MinDuration)

LongRuns(rs) == SelectSeq(Grouped(rs), LAMBDA g : g.total_duration >= MinDuration)

LatestRow(r) ==
    [x |-> r.x, y |-> r.y, latest_ts |-> r.ts, yellow |-> r.yellow, red |-> r.red,
     dark_red |-> r.dark_red, latest_severity |-> Severity(r)]

CellLess(a, b) == a[1] < b[1] \/ (a[1] = b[1] /\ a[2] < b[2])

RECURSIVE CellSeq(_)
\* the cells of a set in ORDER BY x, y
CellSeq(cs) ==
    IF cs = {} THEN <<>>
    ELSE LET c == CHOOSE c \in cs : \A d \in cs : d = c \/ CellLess(c, d)
         IN  <<c>> \o CellSeq(cs \ {c})

\* every row of traffic, with no DISTINCT ON
LatestStatesAllRows(t) == {[i \in 1..Len(t) |-> LatestRow(t[i])]}

\* The rows of cell c with the greatest ts.
Newest(t, c) ==
    LET own == {i \in 1..Len(t) : <<t[i].x, t[i].y>> = c}
    IN  {i \in own : \A j \in own : t[j].ts <= t[i].ts}

RECURSIVE DistinctOn(_, _)
DistinctOn(t, cells) ==
    IF cells = <<>> THEN {<<>>}
    ELSE LET rest == DistinctOn(t, Tail(cells))
         IN  {<<LatestRow(t[i])>> \o r : i \in Newest(t, Head(cells)), r \in rest}

\* SELECT DISTINCT ON (x, y) ... ORDER BY x, y, ts DESC: one row per cell, a row of
\* the greatest ts; which one of several rows of that ts is kept is not determined.
LatestStates(t) == DistinctOn(t, CellSeq({<<t[i].x, t[i].y>> : i \in 1..Len(t)}))

ReportRow(s, p95) ==
    [x |-> s.x, y |-> s.y, latest_ts |-> s.latest_ts, yellow |-> s.yellow,
     red |-> s.red, dark_red |-> s.dark_red, latest_severity |-> s.latest_severity,
     threshold_p95 |-> p95]

RECURSIVE Joined(_, _, _)
\* long_runs l JOIN latest_state s USING (x, y) CROSS JOIN severity_threshold t
\* WHERE s.latest_severity >= t.p95
Joined(lr, ls, p95) ==
    IF lr = <<>> THEN <<>>
    ELSE LET match == SelectSeq(ls, LAMBDA s :
                          SameCell(s, Head(lr)) /\ SqlGe(s.latest_severity, p95))
         IN  [i \in 1..Len(match) |-> ReportRow(match[i], p95)]
             \o Joined(Tail(lr), ls, p95)

RECURSIVE InsertDesc(_, _)
InsertDesc(v, s) ==
    IF s = <<>> THEN <<v>>
    ELSE IF v.latest_severity > Head(s).latest_severity THEN <<v>> \o s
    ELSE <<Head(s)>> \o InsertDesc(v, Tail(s))

RECURSIVE OrderBySeverityDesc(_)
OrderBySeverityDesc(rows) ==
    IF rows = <<>> THEN <<>>
    ELSE InsertDesc(rows[Len(rows)], OrderBySeverityDesc(SubSeq(rows, 1, Len(rows) - 1)))

FinalSelect(lr, ls, p95) == OrderBySeverityDesc(Joined(lr, ls, p95))

\* ------------------------------------------------------------- tables
Reading(c, t, k) ==
    [x |-> c[1], y |-> c[2], ts |-> t, yellow |-> k[1], red |-> k[2], dark_red |-> k[3]]

RECURSIVE SumTo(_, _)
SumTo(g, i) == IF i <= 1 THEN 0 ELSE g[i] + SumTo(g, i - 1)

\* A table of n rows in insertion (timestamp) order: the first row is at minute 0,
\* row i > 1 is gs[i] minutes after row i - 1.
Table(n, cs, gs, ks) == [i \in 1..n |-> Reading(cs[i], SumTo(gs, i), ks[i])]

\* A table with history: HistoryRows old rows of one cell, 5 minutes apart, then three
\* rows of each of the two cells, the first at minute 200 or later.
HistoryCell == <<11, 7>>
HistoryCount == <<1, 0, 0>>
CellA == <<11, 8>>
CellB == <<11, 9>>
BusyGaps == {10, 20}

BusySeries(c, start, g, k) ==
    <<Reading(c, start, k[1]), Reading(c, start + g[1], k[2]),
      Reading(c, start + g[1] + g[2], k[3])>>

BusyTable(ga, gb, ka, kb) ==
    [i \in 1..HistoryRows |-> Reading(HistoryCell, 5 * (i - 1), HistoryCount)]
        \o BusySeries(CellA, 200, ga, ka) \o BusySeries(CellB, 200, gb, kb)

RECURSIVE MaxTs(_)
MaxTs(t) ==
    IF t = <<>> THEN 0
    ELSE LET m == MaxTs(Tail(t)) IN IF Head(t).ts > m THEN Head(t).ts ELSE m

NoRequest == [duration |-> "", x |-> "", y |-> "", hour |-> ""]

Init ==
    /\ \/ \E n \in 0..MaxReadings :
              \E cs \in [1..n -> Cells], gs \in [2..n -> Gaps], ks \in [1..n -> Counts] :
                  traffic = Table(n, cs, gs, ks)
       \/ \E ga \in [1..2 -> BusyGaps], gb \in [1..2 -> BusyGaps],
             ka \in [1..3 -> Counts], kb \in [1..3 -> Counts] :
                  traffic = BusyTable(ga, gb, ka, kb)
    /\ now \in {MaxTs(traffic) + d : d \in NowOffsets}
    /\ pc = "idle"
    /\ severity_threshold = NULL
    /\ with_gaps = <<>>
    /\ segments = <<>>
    /\ runs = <<>>
    /\ long_runs = <<>>
    /\ latest_state = <<>>
    /\ response = <<>>
    /\ request = NoRequest
    /\ query_params = <<>>
    /\ grid_stats = <<>>

\* GET /sustained: handleSustained runs querySustained and returns its rows.
HandleSustained ==
    /\ pc = "idle"
    /\ \E ls \in LatestStates(traffic) :
        LET p95 == SeverityThreshold(traffic, now)
            w == WithGaps(Marked(RecentData(traffic, now), p95))
            s == Segments(w)
            r == Runs(s)
            lr == LongRuns(r)
        IN  /\ severity_threshold' = p95
            /\ with_gaps' = w
            /\ segments' = s
            /\ runs' = r
            /\ long_runs' = lr
            /\ latest_state' = ls
            /\ response' = FinalSelect(lr, ls, p95)
    /\ pc' = "done"
    /\ UNCHANGED <<traffic, now, request, query_params, grid_stats>>

Next == HandleSustained

Spec == Init /\ [][Next]_vars

\* -------------------------------------------------- queryCurrentTraffic
\* grid_stats: percentile_cont(0.95) and percentile_cont(0.99) of the severities of
\* every row of traffic, GROUP BY x, y
GridStats(t) ==
    LET cells == CellSeq({<<t[i].x, t[i].y>> : i \in 1..Len(t)})
    IN  [k \in 1..Len(cells) |->
            LET pop == SeverityOf(SelectSeq(t, LAMBDA r : <<r.x, r.y>> = cells[k]))
            IN  [x |-> cells[k][1], y |-> cells[k][2],
                 p95 |-> PercentileCont(QuantileP95, pop),
                 p99 |-> PercentileCont(QuantileP99, pop)]]

\* latest_per_grid: the latest row per grid among the rows of the last 30 minutes
LatestPerGrid(t, n) == LatestStates(SelectSeq(t, LAMBDA r : r.ts >= n - LatestWindow))

RECURSIVE CurrentJoined(_, _)
\* latest_per_grid l JOIN grid_stats g USING (x, y)
CurrentJoined(l, g) ==
    IF l = <<>> THEN <<>>
    ELSE LET match == SelectSeq(g, LAMBDA r : SameCell(r, Head(l)))
         IN  [i \in 1..Len(match) |->
                 [x |-> Head(l).x, y |-> Head(l).y, ts |-> Head(l).latest_ts,
                  yellow |-> Head(l).yellow, red |-> Head(l).red,
                  dark_red |-> Head(l).dark_red,
                  latest_severity |-> Head(l).latest_severity,
                  p95 |-> match[i].p95, p99 |-> match[i].p99]]
             \o CurrentJoined(Tail(l), g)

\* Tables for /current: at most MaxPop rows of one cell, 10 minutes apart, with
\* severities 0..5, and possibly one row of a second cell.
PopCounts == {<<0, 0, 0>>, <<1, 0, 0>>, <<0, 1, 0>>, <<0, 0, 1>>, <<1, 0, 1>>, <<0, 1, 1>>}
OtherCount == <<0, 0, 3>>

PopTable(n, ks, extra) == [i \in 1..n |-> Reading(CellA, 10 * (i - 1), ks[i])] \o extra

InitCurrent ==
    /\ \E n \in 0..MaxPop :
           \E ks \in [1..n -> PopCounts],
              extra \in {<<>>, <<Reading(CellB, 10 * n, OtherCount)>>} :
                  traffic = PopTable(n, ks, extra)
    /\ now \in {MaxTs(traffic), MaxTs(traffic) + LatestWindow + 10}
    /\ pc = "idle"
    /\ severity_threshold = NULL
    /\ with_gaps = <<>>
    /\ segments = <<>>
    /\ runs = <<>>
    /\ long_runs = <<>>
    /\ latest_state = <<>>
    /\ response = <<>>
    /\ request = NoRequest
    /\ query_params = <<>>
    /\ grid_stats = <<>>

\* GET /current: handleCurrent runs queryCurrentTraffic and returns its rows.
HandleCurrent ==
    /\ pc = "idle"
    /\ \E l \in LatestPerGrid(traffic, now) :
        /\ grid_stats' = GridStats(traffic)
        /\ latest_state' = l
        /\ response' = OrderBySeverityDesc(CurrentJoined(l, GridStats(traffic)))
    /\ pc' = "done"
    /\ UNCHANGED <<traffic, now, severity_threshold, with_gaps, segments, runs,
                   long_runs, request, query_params>>

NextCurrent == HandleCurrent

SpecCurrent == InitCurrent /\ [][NextCurrent]_vars

\* ------------------------------------------------------------ /history
\* JavaScript values: strings, null, undefined, and the functions and objects that
\* every object inherits from Object.prototype.
Str(v) == [type |-> "string", value |-> v]
JsNull == [type |-> "null", value |-> ""]
JsUndefined == [type |-> "undefined", value |-> ""]
Inherited(k) == [type |-> IF k = "__proto__" THEN "object" ELSE "function", value |-> k]

Truthy(v) ==
    CASE v.type = "string" -> v.value # ""
      [] v.type \in {"null", "undefined"} -> FALSE
      [] OTHER -> TRUE

\* a || b
JsOr(a, b) == IF Truthy(a) THEN a ELSE b

\* const maxDurations: Record<string, string> = { '1h': '1h', ... }
maxDurations == {"1h", "6h", "12h", "24h", "7d"}

\* the properties an object literal inherits from Object.prototype
ObjectPrototype ==
    {"constructor", "toString", "toLocaleString", "valueOf", "hasOwnProperty",
     "isPrototypeOf", "propertyIsEnumerable", "__proto__"}

\* maxDurations[key]: an own entry, else what the prototype chain gives
Lookup(key) ==
    IF key \in maxDurations THEN Str(key)
    ELSE IF key \in ObjectPrototype THEN Inherited(key)
    ELSE JsUndefined

limitMaxDuration(duration) ==
    IF ~ Truthy(duration) THEN Str("24h")
    ELSE JsOr(Lookup(duration.value), Str("24h"))

Durations ==
    {JsNull} \cup {Str(v) : v \in maxDurations \cup {"", "3d", "toString", "constructor", "__proto__"}}

Requests ==
    [duration : Durations, x : {JsNull, Str("3")}, y : {JsNull, Str("4")},
     hour : {JsNull, Str("9")}]

InitHistory ==
    /\ traffic = <<>>
    /\ now = 0
    /\ pc = "idle"
    /\ severity_threshold = NULL
    /\ with_gaps = <<>>
    /\ segments = <<>>
    /\ runs = <<>>
    /\ long_runs = <<>>
    /\ latest_state = <<>>
    /\ response = <<>>
    /\ request \in Requests
    /\ query_params = <<>>
    /\ grid_stats = <<>>

\* GET /history: the parameters handed to sql.query(queryHistory, ...)
HandleHistory ==
    /\ pc = "idle"
    /\ query_params' = <<JsOr(request.x, Str("11")), JsOr(request.y, Str("8")),
                         limitMaxDuration(request.duration)>>
    /\ pc' = "done"
    /\ UNCHANGED <<traffic, now, severity_threshold, with_gaps, segments, runs,
                   long_runs, latest_state, response, request, grid_stats>>

\* GET /history-hourly: the parameters handed to sql.query(queryHistoryHourly, ...)
HandleHistoryHourly ==
    /\ pc = "idle"
    /\ query_params' = <<JsOr(request.x, Str("11")), JsOr(request.y, Str("8")),
                         limitMaxDuration(request.duration),
                         JsOr(request.hour, Str("15"))>>
    /\ pc' = "done"
    /\ UNCHANGED <<traffic, now, severity_threshold, with_gaps, segments, runs,
                   long_runs, latest_state, response, request, grid_stats>>

NextHistory == HandleHistory \/ HandleHistoryHourly

SpecHistory == InitHistory /\ [][NextHistory]_vars

\* ============================================================== claims
Done == pc = "done"

RECURSIVE SumSet(_, _)
\* the sum of fn[i] over the indices i of S
SumSet(fn, S) ==
    IF S = {} THEN 0
    ELSE LET i == CHOOSE i \in S : TRUE IN fn[i] + SumSet(fn, S \ {i})

CellOf(r) == <<r.x, r.y>>

\* the indices of the rows of a sequence that belong to cell c
RowsOf(rows, c) == {i \in DOMAIN rows : CellOf(rows[i]) = c}

\* the number of break points of r's cell at or before r in timestamp order
BreakPointsUpTo(r) ==
    Cardinality({j \in DOMAIN segments :
                    /\ SameCell(segments[j], r)
                    /\ segments[j].ts <= r.ts
                    /\ segments[j].break_point = 1})

\* C1 (as claimed): the run_id of every duration-contributing reading is the number
\* of break points of its cell at or before it, and two duration pieces of a cell
\* with a break point between them are never summed into the same total_duration.
C1_RunIdCountsBreakPoints ==
    Done =>
        /\ \A i \in DOMAIN runs : runs[i].run_id = BreakPointsUpTo(runs[i])
        /\ \A i, j \in DOMAIN runs :
               RunKey(runs[i]) = RunKey(runs[j]) =>
                   ~ \E k \in DOMAIN segments :
                         /\ SameCell(segments[k], runs[i])
                         /\ segments[k].break_point = 1
                         /\ runs[i].ts < segments[k].ts
                         /\ segments[k].ts < runs[j].ts

\* C2 (as claimed): between two readings of a cell whose duration pieces are summed
\* into the same total_duration there is no non-congested reading of that cell.
C2_NoUncongestedInsideEpisode ==
    Done =>
        \A i, j \in DOMAIN runs :
            RunKey(runs[i]) = RunKey(runs[j]) =>
                ~ \E k \in DOMAIN with_gaps :
                      /\ SameCell(with_gaps[k], runs[i])
                      /\ with_gaps[k].is_congested = 0
                      /\ runs[i].ts < with_gaps[k].ts
                      /\ with_gaps[k].ts < runs[j].ts

\* Row r of runs is the gap from a congested reading of the window to its immediate
\* successor in the same cell.
IsSuccessorGap(r) ==
    \E i, j \in DOMAIN with_gaps :
        /\ SameCell(with_gaps[i], r) /\ with_gaps[i].ts = r.ts
        /\ with_gaps[i].is_congested = 1
        /\ SameCell(with_gaps[j], r)
        /\ with_gaps[j].ts = r.ts + r.duration_piece
        /\ ~ \E k \in DOMAIN with_gaps :
               /\ SameCell(with_gaps[k], r)
               /\ r.ts < with_gaps[k].ts
               /\ with_gaps[k].ts < with_gaps[j].ts

\* C3: every total_duration is non-negative and is the sum of the duration pieces of
\* its (x, y, run_id); every piece is the gap from a congested reading to its
\* immediate successor in the cell, greater than 0 and at most 20 minutes; no
\* reading contributes more than one piece.
C3_TotalIsSumOfIncludedGaps ==
    Done =>
        /\ \A g \in DOMAIN long_runs :
               /\ long_runs[g].total_duration >= 0
               /\ long_runs[g].total_duration =
                      SumSet([i \in DOMAIN runs |-> runs[i].duration_piece],
                             {i \in DOMAIN runs : RunKey(runs[i]) = RunKey(long_runs[g])})
        /\ \A i \in DOMAIN runs :
               /\ runs[i].duration_piece > 0
               /\ runs[i].duration_piece <= GapTolerance
               /\ IsSuccessorGap(runs[i])
               /\ Cardinality({j \in DOMAIN runs :
                                  SameCell(runs[j], runs[i]) /\ runs[j].ts = runs[i].ts})
                      <= Cardinality({j \in DOMAIN with_gaps :
                                         /\ SameCell(with_gaps[j], runs[i])
                                         /\ with_gaps[j].ts = runs[i].ts
                                         /\ with_gaps[j].is_congested = 1})

\* C3 witness: a retained total made of a gap of exactly 20 minutes and another
\* piece, in a cell that also has a gap of more than 20 minutes after a congested
\* reading.
C3_Witness ==
    /\ Done
    /\ \E g \in DOMAIN long_runs :
           /\ \E i \in DOMAIN runs :
                  /\ RunKey(runs[i]) = RunKey(long_runs[g])
                  /\ runs[i].duration_piece = GapTolerance
           /\ \E k \in DOMAIN with_gaps :
                  /\ SameCell(with_gaps[k], long_runs[g])
                  /\ with_gaps[k].is_congested = 1
                  /\ with_gaps[k].next_ts # NULL
                  /\ with_gaps[k].next_ts - with_gaps[k].ts > GapTolerance

\* the total_duration of the (x, y, run_id) groups of cell c, from runs
EpisodeTotals(c) ==
    { SumSet([i \in DOMAIN runs |-> runs[i].duration_piece],
             {i \in RowsOf(runs, c) : runs[i].run_id = id}) :
        id \in {runs[i].run_id : i \in RowsOf(runs, c)} }

\* Row s of latest_state is a most recent reading of its cell in traffic.
IsMostRecent(s) ==
    \E i \in DOMAIN traffic :
        /\ SameCell(traffic[i], s)
        /\ traffic[i].ts = s.latest_ts
        /\ traffic[i].yellow = s.yellow /\ traffic[i].red = s.red
        /\ traffic[i].dark_red = s.dark_red
        /\ s.latest_severity = traffic[i].yellow + 2 * traffic[i].red + 3 * traffic[i].dark_red
        /\ \A j \in DOMAIN traffic : SameCell(traffic[j], s) => traffic[j].ts <= s.latest_ts

StillCongested(c) ==
    \E k \in DOMAIN latest_state :
        /\ CellOf(latest_state[k]) = c
        /\ IsMostRecent(latest_state[k])
        /\ severity_threshold # NULL
        /\ 100 * latest_state[k].latest_severity >= severity_threshold

Reported(c) == \E i \in DOMAIN response : CellOf(response[i]) = c

AllCells == Cells \cup {HistoryCell}

C5_OneRowPerCellNewestFirstBySeverity ==
    Done =>
        /\ \A i, j \in DOMAIN response :
               CellOf(response[i]) = CellOf(response[j]) => i = j
        /\ \A i \in DOMAIN response : IsMostRecent(response[i])
        /\ \A i, j \in DOMAIN response :
               i < j => response[i].latest_severity >= response[j].latest_severity

\* C5 witness: a reported cell with two stretches of congested readings separated by
\* a break point, next to a second reported cell of a lower latest severity.
C5_Witness ==
    /\ Done
    /\ \E i \in DOMAIN response :
           \E a, b \in DOMAIN runs, k \in DOMAIN segments :
               /\ SameCell(runs[a], response[i]) /\ SameCell(runs[b], response[i])
               /\ SameCell(segments[k], response[i])
               /\ segments[k].break_point = 1
               /\ runs[a].ts < segments[k].ts /\ segments[k].ts < runs[b].ts

\* C5 second witness state: two reported cells of different latest severity.
C5_TwoSeverities ==
    /\ Done
    /\ \E i, j \in DOMAIN response :
           response[i].latest_severity > response[j].latest_severity

\* the k-th smallest value (k from 0) of a sequence of numbers, by counting
OrderStat(pop, k) ==
    CHOOSE v \in {pop[i] : i \in DOMAIN pop} :
        /\ Cardinality({i \in DOMAIN pop : pop[i] < v}) <= k
        /\ k < Cardinality({i \in DOMAIN pop : pop[i] <= v})

\* the value at position q*(n-1)/100 of the sorted population, interpolated linearly
\* between the two order statistics that bracket the position, in hundredths
InterpolatedQuantile(q, pop) ==
    IF Len(pop) = 0 THEN NULL
    ELSE LET pos == q * (Len(pop) - 1)
             lo == OrderStat(pop, pos \div 100)
             hi == OrderStat(pop, (pos + 99) \div 100)
         IN  100 * lo + (pos % 100) * (hi - lo)

WindowSeverities == [i \in DOMAIN with_gaps |-> with_gaps[i].severity]

TableSeverities ==
    [i \in DOMAIN traffic |->
        traffic[i].yellow + 2 * traffic[i].red + 3 * traffic[i].dark_red]

\* C7 (as claimed): the p95 threshold is the percentile of the severities of the
\* readings of the 2-hour window.
C7_ThresholdOverWindow ==
    Done => severity_threshold = InterpolatedQuantile(QuantileP95, WindowSeverities)

\* C7 (amended): the p95 threshold is the percentile of the severities of every row
\* of the traffic table, whatever its age; that one value marks the readings of the
\* 2-hour window as congested and tests the latest state.
C7_ThresholdOverWholeTable ==
    Done =>
        /\ severity_threshold = InterpolatedQuantile(QuantileP95, TableSeverities)
        /\ Len(with_gaps) =
               Cardinality({i \in DOMAIN traffic : traffic[i].ts >= now - Lookback})
        /\ \A i \in DOMAIN with_gaps :
               with_gaps[i].is_congested = 1 <=>
                   (/\ severity_threshold # NULL
                    /\ 100 * with_gaps[i].severity >= severity_threshold)
        /\ \A i \in DOMAIN response :
               /\ response[i].threshold_p95 = severity_threshold
               /\ 100 * response[i].latest_severity >= severity_threshold

\* C7 witness: a row older than the window makes the threshold differ from the
\* percentile of the window, and a reading of the window is marked by it.
C7_Witness ==
    /\ Done
    /\ \E i \in DOMAIN traffic : traffic[i].ts < now - Lookback
    /\ severity_threshold # InterpolatedQuantile(QuantileP95, WindowSeverities)
    /\ \E i \in DOMAIN with_gaps :
           /\ with_gaps[i].is_congested = 0
           /\ 100 * with_gaps[i].severity >=
                  InterpolatedQuantile(QuantileP95, WindowSeverities)

\* Row i of with_gaps is the last reading of its cell's series in the window.
IsLastOfSeries(i) ==
    \A j \in DOMAIN with_gaps :
        (j # i /\ SameCell(with_gaps[j], with_gaps[i])) =>
            \/ with_gaps[j].ts < with_gaps[i].ts
            \/ (with_gaps[j].ts = with_gaps[i].ts /\ j < i)

\* C9: the last reading of a cell's series in the window has no duration piece; a
\* cell with at most one reading in the window has no row in runs or long_runs and
\* is not reported; an empty table gives an empty report.
C9_LastReadingHasNoPiece ==
    Done =>
        /\ Len(segments) = Len(with_gaps)
        /\ \A i \in DOMAIN with_gaps :
               IsLastOfSeries(i) => segments[i].duration_piece = 0
        /\ \A c \in AllCells :
               Cardinality(RowsOf(with_gaps, c)) <= 1 =>
                   /\ RowsOf(runs, c) = {}
                   /\ RowsOf(long_runs, c) = {}
                   /\ ~ Reported(c)
        /\ traffic = <<>> => response = <<>>

\* C9 witness: a cell whose only reading in the window is congested is left out of a
\* report that holds another cell.
C9_Witness ==
    /\ Done
    /\ response # <<>>
    /\ \E c \in AllCells :
           /\ Cardinality(RowsOf(with_gaps, c)) = 1
           /\ \A i \in RowsOf(with_gaps, c) : with_gaps[i].is_congested = 1
           /\ ~ Reported(c)

\* The timestamps of the window readings of cell c are strictly increasing.
StrictlyIncreasing(c) ==
    \A i, j \in RowsOf(with_gaps, c) : i # j => with_gaps[i].ts # with_gaps[j].ts

\* C10: in segments no reading has both a duration piece and a break point; a
\* non-congested reading has neither; in a cell of strictly increasing timestamps a
\* congested reading has exactly one; a congested reading whose successor has the
\* same timestamp has neither.
C10_PieceXorBreakPoint ==
    Done =>
        /\ Len(segments) = Len(with_gaps)
        /\ \A i \in DOMAIN segments :
               /\ segments[i].break_point \in {0, 1}
               /\ segments[i].duration_piece >= 0
               /\ ~ (segments[i].duration_piece > 0 /\ segments[i].break_point = 1)
               /\ with_gaps[i].is_congested = 0 =>
                      (segments[i].duration_piece = 0 /\ segments[i].break_point = 0)
               /\ (with_gaps[i].is_congested = 1 /\ StrictlyIncreasing(CellOf(with_gaps[i]))) =>
                      (segments[i].duration_piece > 0 <=> segments[i].break_point = 0)
               /\ (with_gaps[i].is_congested = 1 /\ with_gaps[i].next_ts = with_gaps[i].ts) =>
                      (segments[i].duration_piece = 0 /\ segments[i].break_point = 0)

\* C10 witness: a congested reading whose successor has the same timestamp, beside a
\* congested reading with a gap of exactly 20 minutes.
C10_Witness ==
    /\ Done
    /\ \E i \in DOMAIN with_gaps :
           with_gaps[i].is_congested = 1 /\ with_gaps[i].next_ts = with_gaps[i].ts
    /\ \E i \in DOMAIN with_gaps :
           /\ with_gaps[i].is_congested = 1
           /\ with_gaps[i].next_ts = with_gaps[i].ts + GapTolerance

AllowedDurations == {Str("1h"), Str("6h"), Str("12h"), Str("24h"), Str("7d")}

\* C6 (as claimed): whatever the duration parameter of the request, the duration
\* handed to the history query is one of the strings 1h, 6h, 12h, 24h, 7d: the
\* parameter itself when it is one of the five, and 24h otherwise.
C6_DurationIsAllowListed ==
    (Done /\ query_params # <<>>) =>
        /\ query_params[3] \in AllowedDurations
        /\ query_params[3] =
               IF request.duration \in AllowedDurations THEN request.duration
               ELSE Str("24h")

\* the severities of the rows of traffic in the grid of row g
GridSeverities(g) ==
    LET own == SelectSeq(traffic, LAMBDA r : SameCell(r, g))
    IN  [i \in DOMAIN own |-> own[i].yellow + 2 * own[i].red + 3 * own[i].dark_red]

\* the number of rows of the population with value v
Count(pop, v) == Cardinality({i \in DOMAIN pop : pop[i] = v})

\* C8: p95 and p99 are the linear interpolation between the order statistics that
\* bracket position q*(n-1) of the sorted severities; for the population
\* 1, 2, 3, 4, 5 the p95 is 4.8; for a population of one repeated value it is that
\* value.
C8_PercentileIsLinearInterpolation ==
    Done =>
        \A k \in DOMAIN grid_stats :
            LET pop == GridSeverities(grid_stats[k])
            IN  /\ Len(pop) >= 1
                /\ grid_stats[k].p95 = InterpolatedQuantile(QuantileP95, pop)
                /\ grid_stats[k].p99 = InterpolatedQuantile(QuantileP99, pop)
                /\ (Len(pop) = 5 /\ \A v \in 1..5 : Count(pop, v) = 1) =>
                       grid_stats[k].p95 = 480
                /\ \A v \in 0..9 :
                       Count(pop, v) = Len(pop) =>
                           (grid_stats[k].p95 = 100 * v /\ grid_stats[k].p99 = 100 * v)

\* C8 witness: the grid statistics of the population 1, 2, 3, 4, 5 taken in another
\* order than the sorted one.
C8_Witness ==
    /\ Done
    /\ \E k \in DOMAIN grid_stats :
           LET pop == GridSeverities(grid_stats[k])
           IN  /\ Len(pop) = 5 /\ \A v \in 1..5 : Count(pop, v) = 1
               /\ pop[1] = 5
               /\ grid_stats[k].p95 = 480

====
